---------------------------- MODULE Spec2Model ----------------------------
(***************************************************************************)
(* Model of zlog_sql.py: the ZNC module zlog_sql (the supervisor and the   *)
(* producer), the class-level multiprocessing.SimpleQueue log_queue, the   *)
(* worker processes running DatabaseThread.worker_safe / worker, and the   *)
(* three Database adapters (PostgresDatabase, MySQLDatabase,               *)
(* SQLiteDatabase).                                                        *)
(***************************************************************************)
EXTENDS Integers, Sequences, FiniteSets, TLC

(***************************************************************************)
(* Bounds of the model.                                                    *)
(***************************************************************************)
\* number of OnLoad calls in a run (each successful one starts a process)
MaxLoads == 2
\* number of put_log calls that reach the queue in a run
MaxRecords == 2
\* number of pickled items the pipe under the SimpleQueue holds before
\* send_bytes blocks (the OS pipe buffer, counted in items)
PipeCap == 2

Procs == 1..MaxLoads

VARIABLES
    log_queue,      \* zlog_sql.log_queue: the items in the pipe, head first
    module,         \* the module instance: "absent", "loaded", "failed"
    message,        \* OnLoad's out-parameter message.s
    producer,       \* <<>> or <<p>>: the host thread blocked in log_queue.put
    procs,          \* the worker processes started by OnLoad
    backendUp,      \* the storage engine is reachable and accepts statements
    logs,           \* the rows of the logs table, in insertion order
    internal_log,   \* the kinds of entries written to error.log
    pushed,         \* history: the records put_log has enqueued, in order
    marks,          \* history: per queued sentinel, Len(pushed) when pushed
    loads,          \* history: number of OnLoad calls
    attempted,      \* history: created_at of the records the try block ran for
    failed,         \* history: created_at of the records whose try block raised
    sentinels,      \* history: number of None items __del__ has enqueued
    reconnects,     \* history: per record, the connect() calls made for it
                    \* by ensure_connected since its last insert_into call
    hook_errors     \* the exceptions that left a hook to the host

vars == <<log_queue, module, message, producer, procs, backendUp, logs,
          internal_log, pushed, marks, loads, attempted, failed, sentinels,
          reconnects, hook_errors>>

(***************************************************************************)
(* Values.                                                                 *)
(***************************************************************************)
\* the shutdown sentinel: log_queue.put(None)
None == [none |-> TRUE]

\* Python's None for the nullable columns user and network
NULL == "NULL"

\* Database.__init__: self.conn = None
NoConn == [present |-> FALSE, open |-> FALSE, status |-> 0]

\* psycopg2.extensions.STATUS_READY, the status of a connection that
\* psycopg2.connect returned and of one that committed
STATUS_READY == 1

\* the handle a successful connect() stores in self.conn
OpenConn == [present |-> TRUE, open |-> TRUE, status |-> STATUS_READY]

(***************************************************************************)
(* Connection strings.  A string is a sequence of tokens: the scheme words,*)
(* the delimiters "://", ":", "@", "/", the blank " ", a letter "x" and    *)
(* the digits "3" and "0".  The regular expressions of parse_args are      *)
(* evaluated on the tokens with Python's backtracking priorities: a lazy   *)
(* group takes the shortest match first, a greedy group the longest, and   *)
(* an optional group is tried before it is skipped.                        *)
(***************************************************************************)
Digits == {"3", "0"}

DigitValue(t) == IF t = "3" THEN 3 ELSE 0

IsSpace(t) == t = " "

\* str.strip() == '': nothing but whitespace
IsBlank(s) == \A i \in 1..Len(s) : IsSpace(s[i])

\* the number of tokens a leading \s* consumes before a non-blank literal
LeadingSpaces(s) ==
    CHOOSE k \in 0..Len(s) :
        /\ \A i \in 1..k : IsSpace(s[i])
        /\ (k = Len(s) \/ ~IsSpace(s[k + 1]))

\* s without leading and trailing whitespace (str.strip, which int() applies)
Strip(s) ==
    IF IsBlank(s) THEN <<>>
    ELSE LET a == LeadingSpaces(s)
             b == CHOOSE k \in 1..Len(s) :
                      /\ ~IsSpace(s[k])
                      /\ \A i \in (k + 1)..Len(s) : IsSpace(s[i])
         IN  SubSeq(s, a + 1, b)

\* a regex group that did not take part in the match (match.group(n) is None)
NoGroup == [present |-> FALSE, text |-> <<>>]

Group(t) == [present |-> TRUE, text |-> t]

NoMatch == [matched |-> FALSE, groups |-> <<>>]

\* re.search of the sqlite pattern of parse_args
re_sqlite(s) ==
    LET k == LeadingSpaces(s)
        n == Len(s)
    IN  IF k + 1 > n \/ s[k + 1] # "sqlite" THEN NoMatch
        ELSE IF k + 3 <= n /\ s[k + 2] = "://"
             THEN [matched |-> TRUE, groups |-> <<Group(SubSeq(s, k + 3, n))>>]
        ELSE IF \A i \in (k + 2)..n : IsSpace(s[i])
             THEN [matched |-> TRUE, groups |-> <<NoGroup>>]
        ELSE NoMatch

\* The ways the pattern user:passwd@host[:port]/db matches r: <<i, j, k, l>>
\* with group 1 = r[1..i], group 2 = r[i+2..j], group 3 = r[j+2..k], and either
\* l = 0 (no port group, "/" at k+1) or group 4 = r[k+2..l] ("/" at l+1);
\* group 5 is the rest, which must not be empty.
url_candidates(r) ==
    LET m == Len(r)
    IN  { c \in (1..m) \X (1..m) \X (1..m) \X (0..m) :
            LET i == c[1]  j == c[2]  k == c[3]  l == c[4]
            IN  /\ i + 1 <= m /\ r[i + 1] = ":"
                /\ i + 2 <= j /\ j + 1 <= m /\ r[j + 1] = "@"
                /\ j + 2 <= k /\ k + 1 <= m
                /\ \/ l = 0 /\ r[k + 1] = "/" /\ k + 2 <= m
                   \/ /\ r[k + 1] = ":"
                      /\ k + 1 <= l /\ l + 1 <= m /\ r[l + 1] = "/"
                      /\ l + 2 <= m }

\* c is tried before d by the backtracking matcher
url_before(c, d) ==
    \/ c[1] < d[1]
    \/ c[1] = d[1] /\ c[2] < d[2]
    \/ c[1] = d[1] /\ c[2] = d[2] /\ c[3] < d[3]
    \/ c[1] = d[1] /\ c[2] = d[2] /\ c[3] = d[3] /\ c[4] > d[4]

\* re.search of the mysql:// and postgres:// patterns of parse_args
re_url(scheme, s) ==
    LET k0 == LeadingSpaces(s)
        n  == Len(s)
    IN  IF k0 + 2 > n \/ s[k0 + 1] # scheme \/ s[k0 + 2] # "://" THEN NoMatch
        ELSE LET r  == SubSeq(s, k0 + 3, n)
                 cs == url_candidates(r)
             IN  IF cs = {} THEN NoMatch
                 ELSE LET c == CHOOSE x \in cs :
                                   \A y \in cs : x = y \/ url_before(x, y)
                          i == c[1]  j == c[2]  k == c[3]  l == c[4]
                      IN  [matched |-> TRUE,
                           groups |->
                             << Group(SubSeq(r, 1, i)),
                                Group(SubSeq(r, i + 2, j)),
                                Group(SubSeq(r, j + 2, k)),
                                IF l = 0 THEN NoGroup
                                ELSE Group(SubSeq(r, k + 2, l)),
                                Group(SubSeq(r, (IF l = 0 THEN k ELSE l) + 2,
                                             Len(r))) >>]

\* int(text) accepts the text: digits, after stripping whitespace
int_ok(text) ==
    LET t == Strip(text)
    IN  t # <<>> /\ \A i \in 1..Len(t) : t[i] \in Digits

RECURSIVE int_value(_)
int_value(t) ==
    IF t = <<>> THEN 0
    ELSE 10 * int_value(SubSeq(t, 1, Len(t) - 1)) + DigitValue(t[Len(t)])

\* self.GetSavePath() joined with 'logs.sqlite'
DefaultSqlitePath == <<"savepath", "/", "logs.sqlite">>

Raised(text) == [ok |-> FALSE, error |-> text, kind |-> "none", dsn |-> <<>>]

Adapter(kind, dsn) == [ok |-> TRUE, error |-> "", kind |-> kind, dsn |-> dsn]

\* the dsn dict of MySQLDatabase / PostgresDatabase, as <<key, value>> pairs
url_dsn(g) ==
    IF g[4].present
    THEN << <<"host", g[3].text>>, <<"port", int_value(Strip(g[4].text))>>,
            <<"user", g[1].text>>, <<"passwd", g[2].text>>,
            <<"db", g[5].text>> >>
    ELSE << <<"host", g[3].text>>, <<"user", g[1].text>>,
            <<"passwd", g[2].text>>, <<"db", g[5].text>> >>

\* zlog_sql.parse_args: the adapter it returns, or the exception it raises
parse_args(args) ==
    IF IsBlank(args)
    THEN Raised("Missing argument. Provide connection string as an argument.")
    ELSE LET ms == re_sqlite(args)
             mm == re_url("mysql", args)
             mp == re_url("postgres", args)
         IN  IF ms.matched
             THEN IF ~ms.groups[1].present
                  THEN Adapter("sqlite", << <<"database", DefaultSqlitePath>> >>)
                  ELSE Adapter("sqlite",
                               << <<"database", ms.groups[1].text>> >>)
             ELSE IF mm.matched
             THEN IF mm.groups[4].present /\ ~int_ok(mm.groups[4].text)
                  THEN Raised("invalid literal for int() with base 10")
                  ELSE Adapter("mysql", url_dsn(mm.groups))
             ELSE IF mp.matched
             THEN IF mp.groups[4].present /\ ~int_ok(mp.groups[4].text)
                  THEN Raised("invalid literal for int() with base 10")
                  ELSE Adapter("postgres", url_dsn(mp.groups))
             ELSE Raised("Unrecognized connection string. Check the documentation.")

(***************************************************************************)
(* The connection strings the host may pass to OnLoad: for each scheme,    *)
(* scheme :// user : passwd @ host [: port] / db with at most one part     *)
(* left out and every form of the port; the short and blank forms.         *)
(***************************************************************************)
RECURSIVE Flatten(_)
Flatten(parts) ==
    IF parts = <<>> THEN <<>> ELSE Head(parts) \o Flatten(Tail(parts))

Schemes == {"sqlite", "mysql", "postgres"}

PortParts == {<<>>, <<":">>, <<":", "3">>, <<":", "x">>, <<":", "3", "0">>}

\* user : passwd @ host / db, as seven parts
FullBody == << <<"x">>, <<":">>, <<"x">>, <<"@">>, <<"x">>, <<"/">>, <<"x">> >>

\* FullBody with part k left out (k = 0: nothing left out) and the port
\* inserted after the host
Body(k, port) ==
    LET part(i) == IF i = k THEN <<>> ELSE FullBody[i]
    IN  Flatten(<< part(1), part(2), part(3), part(4), part(5), port,
                   part(6), part(7) >>)

ShortForms ==
    { <<>>, <<" ">>, <<"x">>, <<"sqlite">>, <<" ", "sqlite", " ">>,
      <<"sqlite", "://">>, <<"sqlite", "x">>, <<"mysql">>, <<"mysql", "://">>,
      <<"postgres", "://", "x">>, <<"x", "://", "x", ":", "x", "@", "x", "/", "x">>,
      <<" ", "mysql", "://", "x", ":", "x", "@", "x", ":", "3", "/", "x", " ">> }

ArgSet ==
    ShortForms \cup
    { <<scheme, "://">> \o Body(k, port) :
        scheme \in Schemes, k \in 0..7, port \in PortParts }

\* parse_args on every string of ArgSet
ParseTable == [a \in ArgSet |-> parse_args(a)] @@ <<>>

(***************************************************************************)
(* The Database adapters.  up: the storage engine is reachable.  A handle  *)
(* is [present, open, status]: open is pymysql's conn.open (psycopg2's     *)
(* conn.closed = 0), status is psycopg2's conn.status.                     *)
(***************************************************************************)
\* <Adapter>.connect(): the handle is assigned only if the library's connect
\* returns; otherwise the exception leaves self.conn as it was
connect(kind, conn, up) ==
    IF up THEN [raised |-> FALSE, conn |-> OpenConn]
    ELSE [raised |-> TRUE, conn |-> conn]

\* the condition under which ensure_connected calls connect()
\*   PostgresDatabase: self.conn.status == 0
\*   MySQLDatabase:    self.conn.open is False
\*   SQLiteDatabase:   never (pass)
needs_reconnect(kind, conn) ==
    CASE kind = "postgres" -> conn.status = 0
      [] kind = "mysql"    -> conn.open = FALSE
      [] OTHER             -> FALSE

\* an ensure_connected that calls connect() a second time when the first
\* reconnect fails
ensure_connected_twice(kind, conn, up) ==
    IF needs_reconnect(kind, conn)
    THEN LET r == connect(kind, conn, up)
         IN  [raised |-> r.raised, conn |-> r.conn,
              connects |-> IF r.raised THEN 2 ELSE 1, healthy |-> FALSE]
    ELSE [raised |-> FALSE, conn |-> conn, connects |-> 0, healthy |-> TRUE]

\* an ensure_connected that swallows the exception of a failed reconnect
ensure_connected_swallow(kind, conn, up) ==
    IF needs_reconnect(kind, conn)
    THEN LET r == connect(kind, conn, up)
         IN  [raised |-> FALSE, conn |-> r.conn, connects |-> 1,
              healthy |-> FALSE]
    ELSE [raised |-> FALSE, conn |-> conn, connects |-> 0, healthy |-> TRUE]

\* <Adapter>.ensure_connected(): connects counts the calls of connect()
ensure_connected(kind, conn, up) ==
    IF needs_reconnect(kind, conn)
    THEN LET r == connect(kind, conn, up)
         IN  [raised |-> r.raised, conn |-> r.conn, connects |-> 1,
              healthy |-> FALSE]
    ELSE [raised |-> FALSE, conn |-> conn, connects |-> 0, healthy |-> TRUE]

\* <Adapter>.insert_into('logs', row): execute and commit.  The statement
\* succeeds on an open handle of a reachable engine.  A client-server handle
\* on which a statement failed is closed by its library (status keeps its
\* value); an sqlite3 handle stays usable.
insert_into(kind, conn, up) ==
    IF conn.open /\ up THEN [raised |-> FALSE, conn |-> conn]
    ELSE [raised |-> TRUE,
          conn |-> IF kind = "sqlite" THEN conn ELSE [conn EXCEPT !.open = FALSE]]

(***************************************************************************)
(* The queue: multiprocessing.SimpleQueue is a pipe with a lock on each    *)
(* end; put() writes into the pipe and blocks while the pipe is full.      *)
(***************************************************************************)
\* SimpleQueue.put can write its item now
can_put(q) == Len(q) < PipeCap

\* a put that writes its item ahead of the items already in the pipe
queue_put_front(q, item) == <<item>> \o q

\* the pipe after put(item)
queue_put(q, item) == Append(q, item)

\* a get that reads the head of the pipe without consuming it
queue_get_peek(q) == [item |-> Head(q), rest |-> q]

\* SimpleQueue.get(): the item read from the pipe and what the pipe keeps
queue_get(q) == [item |-> Head(q), rest |-> Tail(q)]

(***************************************************************************)
(* The worker processes.                                                   *)
(***************************************************************************)
NotStarted == [pc |-> "unstarted", item |-> None, kind |-> "none",
               conn |-> NoConn, mark |-> 0, healthy |-> TRUE, connects |-> 0,
               inserts |-> 0, raised_in |-> ""]

\* multiprocessing.Process(target=DatabaseThread.worker_safe, args=(db, ...))
Started(kind) == [NotStarted EXCEPT !.pc = "connect", !.kind = kind]

Init ==
    /\ log_queue = <<>>
    /\ module = "absent"
    /\ message = ""
    /\ producer = <<>>
    /\ procs = [i \in Procs |-> NotStarted]
    /\ backendUp = TRUE
    /\ logs = <<>>
    /\ internal_log = {}
    /\ pushed = <<>>
    /\ marks = <<>>
    /\ loads = 0
    /\ attempted = {}
    /\ failed = {}
    /\ sentinels = 0
    /\ reconnects = [r \in 1..MaxRecords |-> 0]
    /\ hook_errors = {}

(***************************************************************************)
(* The module instance (supervisor and producer), run by the host thread.  *)
(***************************************************************************)
\* what OnLoad does with the result of parse_args: start the process and
\* return True, or set message.s, log and return False
on_load(parsed) ==
    IF parsed.ok
    THEN [start |-> TRUE, kind |-> parsed.kind, ret |-> TRUE, message |-> "",
          log |-> {}]
    ELSE [start |-> FALSE, kind |-> "none", ret |-> FALSE,
          message |-> parsed.error,
          log |-> {"Could not initialize module"}]

\* zlog_sql.OnLoad(args, message)
OnLoad(args) ==
    /\ module = "absent"
    /\ producer = <<>>
    /\ loads < MaxLoads
    /\ LET r == on_load(ParseTable[args])
       IN  /\ loads' = loads + 1
           /\ module' = IF r.ret THEN "loaded" ELSE "failed"
           /\ message' = IF r.ret THEN message ELSE r.message
           /\ internal_log' = internal_log \cup r.log
           /\ procs' = IF r.start
                       THEN [procs EXCEPT ![loads + 1] = Started(r.kind)]
                       ELSE procs
    /\ UNCHANGED <<log_queue, producer, backendUp, logs, pushed, marks,
                   attempted, failed, sentinels, reconnects, hook_errors>>

\* the history kept when an item enters the pipe
Entered(item) ==
    IF item = None
    THEN /\ marks' = Append(marks, Len(pushed))
         /\ sentinels' = sentinels + 1
         /\ UNCHANGED pushed
    ELSE /\ pushed' = Append(pushed, item)
         /\ UNCHANGED <<marks, sentinels>>

\* self.log_queue.put(item) on the host thread: the item is written, or the
\* thread blocks in put until the pipe has room
HostPut(item, by) ==
    IF can_put(log_queue)
    THEN /\ log_queue' = queue_put(log_queue, item)
         /\ Entered(item)
         /\ UNCHANGED producer
    ELSE /\ producer' = <<[item |-> item, by |-> by]>>
         /\ UNCHANGED <<log_queue, pushed, marks, sentinels>>

\* zlog_sql.__del__: the host drops the instance, loaded or not
Del ==
    /\ module \in {"loaded", "failed"}
    /\ producer = <<>>
    /\ module' = "absent"
    /\ HostPut(None, "__del__")
    /\ UNCHANGED <<message, procs, backendUp, logs, internal_log, loads,
                   attempted, failed, reconnects, hook_errors>>

\* the sessions a hook runs in: GetUser() is None; a user without a network
\* (OnBroadcast is called once per user, with no network); a user on a network
Sessions == {"global", "user", "network"}

\* self.GetUser() and self.GetNetwork() in a hook of that session
GetUser(session) == IF session = "global" THEN NULL ELSE "user"

GetNetwork(session) == IF session = "network" THEN "net" ELSE NULL

\* building the dict raises: self.GetNetwork().GetName() is evaluated whenever
\* GetUser() is not None, and GetNetwork() is None there (AttributeError)
log_record_raises(session) ==
    GetUser(session) # NULL /\ GetNetwork(session) = NULL

\* the dict put_log builds
log_record(session, window, line) ==
    [created_at |-> Len(pushed) + 1,
     user       |-> GetUser(session),
     network    |-> IF GetUser(session) # NULL THEN GetNetwork(session)
                    ELSE NULL,
     window     |-> window,
     message    |-> line]

\* zlog_sql.put_log(line, window), called by the hooks of a loaded module
put_log(session, window, line) ==
    /\ module = "loaded"
    /\ producer = <<>>
    /\ Len(pushed) < MaxRecords
    /\ IF log_record_raises(session)
       THEN /\ hook_errors' = hook_errors \cup {"AttributeError"}
            /\ UNCHANGED <<log_queue, producer, pushed, marks, sentinels>>
       ELSE /\ HostPut(log_record(session, window, line), "put_log")
            /\ UNCHANGED hook_errors
    /\ UNCHANGED <<module, message, procs, backendUp, logs, internal_log,
                   loads, attempted, failed, reconnects>>

\* the host thread blocked in put: the write completes once the pipe has room
PutUnblocked ==
    /\ producer # <<>>
    /\ can_put(log_queue)
    /\ log_queue' = queue_put(log_queue, producer[1].item)
    /\ Entered(producer[1].item)
    /\ producer' = <<>>
    /\ UNCHANGED <<module, message, procs, backendUp, logs, internal_log,
                   loads, attempted, failed, reconnects, hook_errors>>

(***************************************************************************)
(* DatabaseThread.worker_safe / worker, run by process i.                  *)
(***************************************************************************)
\* the per-iteration history of a process, cleared when it returns to get()
Idle(p) == [p EXCEPT !.pc = "get", !.item = None, !.healthy = TRUE,
                     !.connects = 0, !.inserts = 0, !.raised_in = ""]

\* an except block that drops the item and returns to get()
Caught_drop(p, where) == Idle(p)

\* the except block up to sleep(sleep_for): log and keep the item
Caught(p, where) == [p EXCEPT !.pc = "retry", !.raised_in = where]

\* db.connect() before the loop; an exception leaves worker through
\* worker_safe, which logs it and re-raises: the process ends
WorkerConnect(i) ==
    /\ procs[i].pc = "connect"
    /\ LET r == connect(procs[i].kind, procs[i].conn, backendUp)
       IN  IF r.raised
           THEN /\ procs' = [procs EXCEPT ![i].pc = "crashed"]
                /\ internal_log' = internal_log \cup
                       {"Unrecoverable exception in worker thread"}
           ELSE /\ procs' = [procs EXCEPT ![i].pc = "get", ![i].conn = r.conn]
                /\ UNCHANGED internal_log
    /\ UNCHANGED <<log_queue, module, message, producer, backendUp, logs,
                   pushed, marks, loads, attempted, failed, sentinels,
                   reconnects, hook_errors>>

\* a loop that goes on reading the pipe after the sentinel
WorkerGet_after_break(i) ==
    /\ procs[i].pc \in {"get", "terminated"}
    /\ log_queue # <<>>
    /\ LET g == queue_get(log_queue)
       IN  /\ log_queue' = g.rest
           /\ IF g.item = None
              THEN /\ procs' = [procs EXCEPT ![i].pc = "terminated",
                                             ![i].mark = Head(marks)]
                   /\ marks' = Tail(marks)
              ELSE /\ procs' = [procs EXCEPT ![i].pc = "ensure",
                                             ![i].item = g.item]
                   /\ UNCHANGED marks
    /\ UNCHANGED <<module, message, producer, backendUp, logs, internal_log,
                   pushed, loads, attempted, failed, sentinels, reconnects,
                   hook_errors>>

\* item = log_queue.get(); if item is None: break
WorkerGet(i) ==
    /\ procs[i].pc = "get"
    /\ log_queue # <<>>
    /\ LET g == queue_get(log_queue)
       IN  /\ log_queue' = g.rest
           /\ IF g.item = None
              THEN /\ procs' = [procs EXCEPT ![i].pc = "terminated",
                                             ![i].mark = Head(marks)]
                   /\ marks' = Tail(marks)
              ELSE /\ procs' = [procs EXCEPT ![i].pc = "ensure",
                                             ![i].item = g.item]
                   /\ UNCHANGED marks
    /\ UNCHANGED <<module, message, producer, backendUp, logs, internal_log,
                   pushed, loads, attempted, failed, sentinels, reconnects,
                   hook_errors>>

\* try: db.ensure_connected()
WorkerEnsure(i) ==
    /\ procs[i].pc = "ensure"
    /\ LET p  == procs[i]
           id == p.item.created_at
           r  == ensure_connected(p.kind, p.conn, backendUp)
           q  == [p EXCEPT !.conn = r.conn, !.healthy = r.healthy,
                           !.connects = r.connects]
       IN  /\ attempted' = attempted \cup {id}
           /\ reconnects' =
                  [reconnects EXCEPT ![id] =
                      IF @ + r.connects > 2 THEN 2 ELSE @ + r.connects]
           /\ IF r.raised
              THEN /\ procs' = [procs EXCEPT ![i] = Caught(q, "ensure_connected")]
                   /\ failed' = failed \cup {id}
                   /\ internal_log' = internal_log \cup
                          {"Could not save to database"}
              ELSE /\ procs' = [procs EXCEPT ![i] = [q EXCEPT !.pc = "insert"]]
                   /\ UNCHANGED <<failed, internal_log>>
    /\ UNCHANGED <<log_queue, module, message, producer, backendUp, logs,
                   pushed, marks, loads, sentinels, hook_errors>>

\* db.insert_into('logs', item)
WorkerInsert(i) ==
    /\ procs[i].pc = "insert"
    /\ LET p  == procs[i]
           id == p.item.created_at
           r  == insert_into(p.kind, p.conn, backendUp)
           q  == [p EXCEPT !.conn = r.conn, !.inserts = 1]
       IN  /\ reconnects' = [reconnects EXCEPT ![id] = 0]
           /\ IF r.raised
              THEN /\ procs' = [procs EXCEPT ![i] = Caught(q, "insert_into")]
                   /\ failed' = failed \cup {id}
                   /\ internal_log' = internal_log \cup
                          {"Could not save to database"}
                   /\ UNCHANGED logs
              ELSE /\ procs' = [procs EXCEPT ![i] = Idle(q)]
                   /\ logs' = Append(logs, p.item)
                   /\ UNCHANGED <<failed, internal_log>>
    /\ UNCHANGED <<log_queue, module, message, producer, backendUp, pushed,
                   marks, loads, attempted, sentinels, hook_errors>>

\* after sleep(sleep_for): log 'Retrying now.' and log_queue.put(item); the
\* process blocks in put while the pipe is full
WorkerRequeue(i) ==
    /\ procs[i].pc = "retry"
    /\ can_put(log_queue)
    /\ log_queue' = queue_put(log_queue, procs[i].item)
    /\ internal_log' = internal_log \cup {"Retrying now."}
    /\ procs' = [procs EXCEPT ![i] = Idle(procs[i])]
    /\ UNCHANGED <<module, message, producer, backendUp, logs, pushed, marks,
                   loads, attempted, failed, sentinels, reconnects,
                   hook_errors>>

Worker(i) ==
    \/ WorkerConnect(i)
    \/ WorkerGet(i)
    \/ WorkerEnsure(i)
    \/ WorkerInsert(i)
    \/ WorkerRequeue(i)

(***************************************************************************)
(* The storage engine becomes unreachable and reachable again.             *)
(***************************************************************************)
BackendFails ==
    /\ backendUp
    /\ backendUp' = FALSE
    /\ UNCHANGED <<log_queue, module, message, producer, procs, logs,
                   internal_log, pushed, marks, loads, attempted, failed,
                   sentinels, reconnects, hook_errors>>

BackendRecovers ==
    /\ ~backendUp
    /\ backendUp' = TRUE
    /\ UNCHANGED <<log_queue, module, message, producer, procs, logs,
                   internal_log, pushed, marks, loads, attempted, failed,
                   sentinels, reconnects, hook_errors>>

Windows == {"Status"}

Lines == {"line"}

Host ==
    \/ \E args \in ArgSet : OnLoad(args)
    \/ Del
    \/ \E session \in Sessions, window \in Windows, line \in Lines :
           put_log(session, window, line)
    \/ PutUnblocked

Next ==
    \/ Host
    \/ \E i \in Procs : Worker(i)
    \/ BackendFails
    \/ BackendRecovers

Spec == Init /\ [][Next]_vars

\* one pipeline: the host loads the module once in the run
FirstOnLoad(args) == loads = 0 /\ OnLoad(args)

OneLoadNext ==
    \/ \E args \in ArgSet : FirstOnLoad(args)
    \/ Del
    \/ \E session \in Sessions, window \in Windows, line \in Lines :
           put_log(session, window, line)
    \/ PutUnblocked
    \/ \E i \in Procs : Worker(i)
    \/ BackendFails
    \/ BackendRecovers

OneLoad == Init /\ [][OneLoadNext]_vars

\* the operating system schedules every runnable process, and a thread
\* blocked in put resumes once the pipe has room
Fairness ==
    /\ \A i \in Procs : WF_vars(Worker(i))
    /\ WF_vars(PutUnblocked)

FairOneLoad == OneLoad /\ Fairness

(***************************************************************************)
(* Properties.                                                             *)
(***************************************************************************)
\* the record with created_at = id has a row in the logs table
Persisted(id) == \E k \in 1..Len(logs) : logs[k].created_at = id

\* the records of a sequence of queue items, in order
RECURSIVE Records(_)
Records(q) ==
    IF q = <<>> THEN <<>>
    ELSE IF Head(q) = None THEN Records(Tail(q))
    ELSE <<Head(q)>> \o Records(Tail(q))

\* the records the processes hold (popped, not yet inserted or requeued)
RECURSIVE Held(_)
Held(n) ==
    IF n = 0 THEN <<>>
    ELSE Held(n - 1) \o (IF procs[n].pc \in {"ensure", "insert", "retry"}
                         THEN <<procs[n].item>> ELSE <<>>)

\* some process ended in worker_safe's except block
Crashed == \E i \in Procs : procs[i].pc = "crashed"

\* C1: while no try block has raised, the rows of the logs table followed by
\* the record the worker holds and the records still in the pipe are exactly
\* the records put_log pushed, in push order: nothing is lost, duplicated or
\* reordered, and once nothing is in flight every pushed record has its row.
C1_PersistedInPushOrder ==
    failed = {} => logs \o Held(MaxLoads) \o Records(log_queue) = pushed

C1_Witness ==
    /\ failed = {}
    /\ ~Crashed
    /\ Len(pushed) >= 2
    /\ logs = pushed
    /\ log_queue = <<>>

\* C2: if the backend recovers and stays reachable and no ShutdownSignal is
\* pushed, every record whose try block raised is eventually persisted, for
\* each adapter, by the worker's ensure_connected / insert_into calls alone.
C2_FailedRecordEventuallyPersisted ==
    (<>[]backendUp /\ [](sentinels = 0 /\ producer = <<>>)) =>
        \A id \in 1..MaxRecords : [](id \in failed => <>Persisted(id))

\* C3: a worker that reached Terminated left no record behind: every record
\* pushed before the sentinel it popped has its row in the logs table.
C3_NoRecordLeftBehind ==
    \A i \in Procs :
        procs[i].pc = "terminated" =>
            \A k \in 1..procs[i].mark : Persisted(pushed[k].created_at)

C5_PushNeverBlocks == producer = <<>>

\* C6: a failed initial connect is surfaced at load time: OnLoad has returned
\* failure with a message, and the module is not left loaded with no worker
\* to consume what it pushes.
C6_ConnectFailureSurfaced ==
    Crashed => (module # "loaded" /\ message # "")

\* C7: no worker process ends because of a backend error: a process leaves its
\* loop only by reading the sentinel.
C7_WorkerEndsOnlyBySentinel ==
    \A i \in Procs : procs[i].pc # "crashed"

\* The documented forms of a connection string: sqlite, sqlite://<path>, and
\* <scheme>://<user>:<pass>@<host>[:<port>]/<database> for mysql and postgres,
\* with non-empty words for user, pass, host and database and digits for port.
IsWord(s, a, b) ==
    a <= b /\ \A i \in a..b : s[i] \in {"x"} \cup Digits

IsNumber(s, a, b) == a <= b /\ \A i \in a..b : s[i] \in Digits

WellFormed(args) ==
    LET s == Strip(args)
        n == Len(s)
    IN  \/ s = <<"sqlite">>
        \/ n >= 3 /\ s[1] = "sqlite" /\ s[2] = "://"
        \/ /\ n >= 9 /\ s[1] \in {"mysql", "postgres"} /\ s[2] = "://"
           /\ \E i, j, k \in 3..n :
                /\ IsWord(s, 3, i) /\ s[i + 1] = ":"
                /\ IsWord(s, i + 2, j) /\ s[j + 1] = "@"
                /\ IsWord(s, j + 2, k)
                /\ \/ s[k + 1] = "/" /\ IsWord(s, k + 2, n)
                   \/ \E l \in k..n :
                        /\ s[k + 1] = ":" /\ IsNumber(s, k + 2, l)
                        /\ l < n /\ s[l + 1] = "/" /\ IsWord(s, l + 2, n)

\* C8: OnLoad of a connection string that has none of the documented forms
\* returns failure with a non-empty message and starts no process.
C8_MalformedFailsToLoad ==
    [][ \A args \in ArgSet :
          (OnLoad(args) /\ ~WellFormed(args)) =>
              (module' = "failed" /\ message' # "" /\ procs' = procs) ]_vars

\* C9, as claimed: counting across requeue cycles, at most one connect() is
\* made for a record between an unhealthy health check and the record's next
\* insert_into call.
C9_OneReconnectAcrossCycles ==
    \A id \in 1..MaxRecords : reconnects[id] <= 1

\* C9, amended: in each iteration, ensure_connected calls connect() exactly
\* once if the health check reported the handle unhealthy and not at all
\* otherwise; insert_into follows in that iteration only on the handle a
\* successful reconnect returned, and a failed reconnect sends the record to
\* the retry without an insert_into call.
C9_OneReconnectPerHealthCheck ==
    \A i \in Procs :
        procs[i].pc \in {"insert", "retry"} =>
            /\ procs[i].connects = (IF procs[i].healthy THEN 0 ELSE 1)
            /\ (procs[i].pc = "insert" /\ ~procs[i].healthy)
                   => procs[i].conn = OpenConn
            /\ procs[i].raised_in = "ensure_connected"
                   => (~procs[i].healthy /\ procs[i].inserts = 0)

C9_Witness ==
    \E i \in Procs :
        /\ procs[i].pc = "insert"
        /\ ~procs[i].healthy
        /\ procs[i].connects = 1
        /\ reconnects[procs[i].item.created_at] = 2

\* C10: once __del__ has run, exactly one sentinel has entered the pipe and
\* the host thread has returned from put without waiting for the worker.
C10_TeardownFireAndForget ==
    (loads = 1 /\ module = "absent") => (sentinels = 1 /\ producer = <<>>)

\* C11: every failed attempt for a record R ends, after the backoff, with one
\* put of R itself, unchanged, at the tail of the queue (behind every item put
\* before, those put during the backoff included), after which the worker is
\* back at get(): the worker leaves Retrying only by that put, and it does
\* leave it.
C11_FailedRecordRequeuedAtTail ==
    /\ [][ \A i \in Procs :
             procs[i].pc = "retry" =>
                 \/ procs'[i] = procs[i]
                 \/ /\ procs'[i].pc = "get"
                    /\ log_queue' = Append(log_queue, procs[i].item) ]_vars
    /\ \A i \in Procs :
         (procs[i].pc = "retry") ~> (procs[i].pc = "get")

\* the step of C11 alone: what leaving Retrying does to the queue
C11_RequeueStep ==
    [][ \A i \in Procs :
          procs[i].pc = "retry" =>
              \/ procs'[i] = procs[i]
              \/ /\ procs'[i].pc = "get"
                 /\ log_queue' = Append(log_queue, procs[i].item) ]_vars

\* C12: insert_into is never called on a handle that the health check of the
\* same iteration reported unhealthy: the worker is at insert_into after an
\* unhealthy check only with the handle a successful connect() just returned,
\* and a failed reconnect takes it to Retrying with no insert_into call.
C12_NoInsertOnUnhealthyHandle ==
    \A i \in Procs :
        /\ (procs[i].pc = "insert" /\ ~procs[i].healthy) =>
               (procs[i].connects >= 1 /\ procs[i].conn = OpenConn)
        /\ (procs[i].pc = "retry" /\ ~procs[i].healthy /\ procs[i].inserts = 1) =>
               procs[i].raised_in = "insert_into"
        /\ (procs[i].pc = "retry" /\ procs[i].raised_in = "ensure_connected") =>
               (~procs[i].healthy /\ procs[i].connects >= 1 /\ procs[i].inserts = 0)

C12_Witness ==
    \E i \in Procs :
        /\ procs[i].pc = "retry"
        /\ procs[i].raised_in = "ensure_connected"
        /\ procs[i].inserts = 0
        /\ Persisted(1)

\* the sentinel is among the items of the pipe
SentinelQueued == \E k \in 1..Len(log_queue) : log_queue[k] = None

\* C13: the ShutdownSignal is honoured only where get() returns it: a worker
\* becomes Terminated only from get() with the sentinel at the head of the
\* pipe, and a worker in Retrying while the sentinel is in the pipe still puts
\* its record back and returns to get() first.
C13_ShutdownOnlyAtTopOfLoop ==
    /\ [][ \A i \in Procs :
             (procs'[i].pc = "terminated" /\ procs[i].pc # "terminated") =>
                 (procs[i].pc = "get" /\ Head(log_queue) = None) ]_vars
    /\ \A i \in Procs :
         (procs[i].pc = "retry" /\ SentinelQueued) ~>
             (procs[i].pc = "get" /\ SentinelQueued)

\* the step of C13 alone: where a worker can become Terminated
C13_TerminatedStep ==
    [][ \A i \in Procs :
          (procs'[i].pc = "terminated" /\ procs[i].pc # "terminated") =>
              (procs[i].pc = "get" /\ Head(log_queue) = None) ]_vars

\* C14: Terminated is terminal: no step of a worker that has read the sentinel
\* is a step of its loop (no get, health check, connect, insert or requeue),
\* its state never changes, no row is written, and every item that is in the
\* pipe stays there, in place and unchanged.
C14_TerminatedIsTerminal ==
    [][ \A i \in Procs :
          procs[i].pc = "terminated" =>
              /\ ~Worker(i)
              /\ procs'[i] = procs[i]
              /\ logs' = logs
              /\ Len(log_queue') >= Len(log_queue)
              /\ SubSeq(log_queue', 1, Len(log_queue)) = log_queue ]_vars

C14_Witness ==
    \E i \in Procs :
        /\ procs[i].pc = "terminated"
        /\ Records(log_queue) # <<>>
        /\ ~backendUp

\* the worker completed its initial connect and is in its loop
InLoop(i) == procs[i].pc \in {"get", "ensure", "insert", "retry"}

\* C15: once the sentinel is in the pipe of a worker that completed its
\* initial connect, the worker eventually reaches Terminated, whatever the
\* backend does (every connect and insert call returns or raises).
C15_SentinelEventuallyTerminates ==
    \A i \in Procs :
        (InLoop(i) /\ SentinelQueued) ~> (procs[i].pc = "terminated")

\* C15 in the behaviours where the worker's own put is never blocked for good
C15_UnlessRequeueBlocked ==
    (\A i \in Procs : []<>(procs[i].pc = "retry" => can_put(log_queue))) =>
        C15_SentinelEventuallyTerminates

\* C16: at any time at most one worker is in the loop that consumes the
\* class-level queue: no worker is started and connected while an earlier one
\* is still Draining or Retrying.
C16_AtMostOneConsumer ==
    Cardinality({i \in Procs : InLoop(i)}) <= 1

\* C19: the queue handed to a newly started worker holds no sentinel of an
\* earlier teardown (the teardown of an instance whose load failed included),
\* so a worker is terminated only by the sentinel of its own supervisor.
C19_NoLeftoverSentinel ==
    [][ \A i \in Procs :
          (procs[i].pc = "unstarted" /\ procs'[i].pc # "unstarted") =>
              ~SentinelQueued ]_vars

\* C17: every record in the pipe has a window and a message, and its user is
\* null exactly when its network is; and every put_log call enqueues its
\* record (or is writing it), also in a session with a user and no network.
C17_RecordAlwaysEnqueued ==
    /\ [](\A k \in 1..Len(log_queue) :
            log_queue[k] # None =>
                /\ log_queue[k].window # NULL
                /\ log_queue[k].message # NULL
                /\ (log_queue[k].user = NULL <=> log_queue[k].network = NULL))
    /\ [][ \A session \in Sessions, window \in Windows, line \in Lines :
             put_log(session, window, line) =>
                 /\ hook_errors' = hook_errors
                 /\ \/ log_queue' =
                         Append(log_queue, log_record(session, window, line))
                    \/ producer' =
                         <<[item |-> log_record(session, window, line),
                            by |-> "put_log"]>> ]_vars

\* the state part of C17 alone: the records in the pipe
C17_QueuedRecordsWellFormed ==
    \A k \in 1..Len(log_queue) :
        log_queue[k] # None =>
            /\ log_queue[k].window # NULL
            /\ log_queue[k].message # NULL
            /\ (log_queue[k].user = NULL <=> log_queue[k].network = NULL)

\* C18: the worker's own put in Retrying can always complete: there is no
\* state in which the only reader of the pipe has a failed record to put back
\* and the pipe is full.
C18_RequeueNeverBlocks ==
    \A i \in Procs : procs[i].pc = "retry" => can_put(log_queue)

\* the places a pushed record can be in
InQueue(id) ==
    Cardinality({k \in 1..Len(log_queue) :
                    log_queue[k] # None /\ log_queue[k].created_at = id})

HeldBy(id) ==
    Cardinality({i \in Procs :
                    /\ procs[i].pc \in {"ensure", "insert", "retry"}
                    /\ procs[i].item.created_at = id})

Rows(id) ==
    Cardinality({k \in 1..Len(logs) : logs[k].created_at = id})

\* C20: every pushed record is in exactly one place: once in the pipe, or held
\* by the worker, or in its one row of the logs table; it is never queued
\* twice, and once inserted it is neither queued nor held again.
C20_InFlightConservation ==
    \A k \in 1..Len(pushed) :
        LET id == pushed[k].created_at
        IN  /\ InQueue(id) + HeldBy(id) + Rows(id) = 1
            /\ \A n \in 1..Len(log_queue) :
                 (log_queue[n] # None /\ log_queue[n].created_at = id) =>
                     log_queue[n] = pushed[k]

C20_Witness ==
    \E id \in failed :
        /\ InQueue(id) = 1
        /\ Rows(id) = 0
        /\ Len(logs) >= 1


=============================================================================
